---- MODULE Spec2Model ----
(***************************************************************************)
(* OpenShock-GD: the death hook of src/main.cpp.  On every death of the    *)
(* player the hook pauses the game, reads and validates settings.json,     *)
(* draws an intensity and a duration and posts one request to the          *)
(* OpenShock API; the answer is shown by the single listener the player    *)
(* object owns.                                                            *)
(*                                                                         *)
(* A JSON value is a record [t |-> type, v |-> value]; a key that is not   *)
(* in the document is [t |-> "absent"].  The integers of the documents     *)
(* are taken to fit an int.                                                *)
(***************************************************************************)
EXTENDS Integers, Sequences, FiniteSets

\* ------------------------------------------------------------ bounds
\* Triggers (deaths) of one run.
MaxTriggers == 2
\* Progress events logged in one run.
MaxProgress == 1
\* generateRandomValue: the draws kept are those within DrawWidth of an end
\* of the range.
DrawWidth == 2

\* ------------------------------------------------------------ JSON values
Absent == [t |-> "absent"]
JInt(n) == [t |-> "int", v |-> n]
JStr(s) == [t |-> "string", v |-> s]

\* The values settings.json gives to each key in the documents examined.
MinDurationValues == {Absent, JStr("x"), JInt(299), JInt(301)}
MaxDurationValues == {Absent, JStr("x"), JInt(300), JInt(30001)}
MinIntensityValues == {Absent, JStr("x"), JInt(0), JInt(2)}
MaxIntensityValues == {Absent, JStr("x"), JInt(1), JInt(101)}
RequiredValues == {Absent, JInt(5), JStr(""), JStr("abc")}
DomainValues == {Absent, JInt(5), JStr(""), JStr("foo.bar")}

\* A settings.json that is a JSON object over the keys the mod reads.
ObjectConfigs ==
    { [file |-> "parsed", root |-> "object", unknownKey |-> FALSE,
       minDuration |-> a, maxDuration |-> b, minIntensity |-> c, maxIntensity |-> d,
       shockerID |-> s, OpenShockToken |-> k, customName |-> n, endpointDomain |-> e] :
         a \in MinDurationValues, b \in MaxDurationValues,
         c \in MinIntensityValues, d \in MaxIntensityValues,
         s \in RequiredValues, k \in RequiredValues, n \in RequiredValues,
         e \in DomainValues }

\* The object {} : no key at all.
EmptyObject ==
    [file |-> "parsed", root |-> "object", unknownKey |-> FALSE,
     minDuration |-> Absent, maxDuration |-> Absent,
     minIntensity |-> Absent, maxIntensity |-> Absent,
     shockerID |-> Absent, OpenShockToken |-> Absent, customName |-> Absent,
     endpointDomain |-> Absent]

\* No settings.json, a truncated one, a JSON array, and an object whose only
\* key is one the mod does not read.
MissingFile == [EmptyObject EXCEPT !.file = "missing", !.root = "none"]
MalformedFile == [EmptyObject EXCEPT !.file = "malformed", !.root = "none"]
ArrayDocument == [EmptyObject EXCEPT !.root = "array"]
OnlyUnknownKey == [EmptyObject EXCEPT !.unknownKey = TRUE]

Configs == ObjectConfigs \cup {MissingFile, MalformedFile, ArrayDocument, OnlyUnknownKey}

\* A document with the three required strings and the defaults for the rest.
ExampleConfig ==
    [EmptyObject EXCEPT !.shockerID = JStr("abc"), !.OpenShockToken = JStr("abc"),
                        !.customName = JStr("abc")]

\* The example with each range a single value.
FixedConfig ==
    [ExampleConfig EXCEPT !.minDuration = JInt(301), !.maxDuration = JInt(301),
                          !.minIntensity = JInt(2), !.maxIntensity = JInt(2)]

\* The documents of the runs with several triggers: one of each kind.
SampleConfigs ==
    {MissingFile, MalformedFile, ArrayDocument, OnlyUnknownKey, EmptyObject,
     FixedConfig, [FixedConfig EXCEPT !.minIntensity = Absent, !.maxIntensity = Absent],
     [ExampleConfig EXCEPT !.minDuration = JInt(299)],
     [ExampleConfig EXCEPT !.minDuration = JStr("x")],
     [ExampleConfig EXCEPT !.maxIntensity = JInt(101)],
     [ExampleConfig EXCEPT !.customName = JStr("")],
     [ExampleConfig EXCEPT !.shockerID = JInt(5)]}

\* The documents with the required strings and integers, or nothing, for
\* the ranges.
RangeConfigs ==
    { c \in ObjectConfigs :
        /\ \A key \in {"shockerID", "OpenShockToken", "customName"} : c[key] = JStr("abc")
        /\ \A key \in {"minDuration", "maxDuration", "minIntensity", "maxIntensity"} :
              c[key].t \in {"absent", "int"}
        /\ c.endpointDomain = Absent }

\* The host at the time of a death: PlayLayer::get(), the director's action
\* manager, and whether readme.txt can be opened for writing.
Hosts ==
    { h \in [playLayer : BOOLEAN, actionManager : BOOLEAN, readmeWritable : BOOLEAN] :
        h.actionManager => h.playLayer }
InLevel == [playLayer |-> TRUE, actionManager |-> TRUE, readmeWritable |-> TRUE]

\* ------------------------------------------------------------ state
VARIABLES
    nTriggers,  \* deaths handled so far
    cfg,        \* settings.json as the last trigger found it
    host,       \* the host as the last trigger found it
    trace,      \* the steps of the last trigger's handler, in order
    outcome,    \* how the last trigger's handler ended
    req,        \* the request the last trigger built
    listener,   \* the trigger whose task m_listener's filter holds (0: none)
    trig,       \* per trigger: its task, its posts, the messages shown for it
    progress    \* progress lines logged

vars == <<nTriggers, cfg, host, trace, outcome, req, listener, trig, progress>>

NoRequest == [url |-> "", token |-> "", id |-> "", customName |-> "",
              intensity |-> 0, duration |-> 0, shownSeconds |-> 0]
NoTrigger == [task |-> "none", posts |-> 0, errors |-> 0, successes |-> 0, cancels |-> 0]


\* ------------------------------------------------------------ nlohmann::json
\* The literals of readConfig and sendPostRequest.
MinDurationDefault == 300
MaxDurationDefault == 30000
MinIntensityDefault == 1
MaxIntensityDefault == 100
MinDurationLimit == 300
MaxDurationLimit == 30000
MinIntensityLimit == 1
MaxIntensityLimit == 100
DefaultDomain == "api.openshock.app"

\* json::value(key, default) throws type_error 306 on a document that is not
\* an object and type_error 302 on a key holding a value of another type.
ValueThrows(c, key, type) ==
    c.root # "object" \/ c[key].t \notin {"absent", type}

\* json::value(key, default) where it does not throw.
Value(c, key, default) ==
    IF c[key].t = "absent" THEN default ELSE c[key].v

\* json::empty() of a parsed object: no key at all.
JsonEmpty(c) ==
    /\ ~c.unknownKey
    /\ \A key \in {"minDuration", "maxDuration", "minIntensity", "maxIntensity",
                  "shockerID", "OpenShockToken", "customName", "endpointDomain"} :
          c[key].t = "absent"

\* ------------------------------------------------------------ readConfig
\* writeReadme: open readme.txt in the config directory and write the text.
writeReadme(h) ==
    IF h.readmeWritable THEN <<"io:openReadme", "io:writeReadme">>
                        ELSE <<"io:openReadme", "log:readmeFailed">>

\* The test of the duration range.
DurationInvalid(minD, maxD) ==
    minD < MinDurationLimit \/ maxD > MaxDurationLimit \/ minD > maxD

IntensityInvalidNoOrder(minI, maxI) ==
    minI < 1 \/ maxI > 100

\* The test of the intensity range.
IntensityInvalid(minI, maxI) ==
    minI < MinIntensityLimit \/ maxI > MaxIntensityLimit \/ minI > maxI

\* readConfig: the steps taken, what is returned ("json": the document,
\* "null": the empty value of `return {}`), the error logged, and whether an
\* exception left the function.
readConfig(c, h) ==
    LET opened == writeReadme(h) \o <<"io:openSettings">>
        parsed == opened \o <<"io:parseSettings">>
        Fail(steps, error) ==
            [steps |-> steps \o <<"popup:" \o error>>, ret |-> "null",
             error |-> error, thrown |-> FALSE]
    IN  IF c.file = "missing" THEN Fail(opened, "MissingFile")
        ELSE IF c.file = "malformed" THEN Fail(parsed, "MalformedJson")
        ELSE IF \/ ValueThrows(c, "minDuration", "int")
                \/ ValueThrows(c, "maxDuration", "int")
                \/ ValueThrows(c, "minIntensity", "int")
                \/ ValueThrows(c, "maxIntensity", "int")
             THEN [steps |-> parsed \o <<"throw">>, ret |-> "null",
                   error |-> "Exception", thrown |-> TRUE]
        ELSE IF DurationInvalid(Value(c, "minDuration", MinDurationDefault),
                                Value(c, "maxDuration", MaxDurationDefault))
             THEN Fail(parsed, "InvalidRange")
        ELSE IF IntensityInvalid(Value(c, "minIntensity", MinIntensityDefault),
                                 Value(c, "maxIntensity", MaxIntensityDefault))
             THEN Fail(parsed, "InvalidIntensity")
        ELSE [steps |-> parsed, ret |-> "json", error |-> "None", thrown |-> FALSE]

\* ------------------------------------------------------------ sendPostRequest
EndpointHostNoEmptyCheck(c) ==
    IF c["endpointDomain"].t = "absent" THEN "api.openshock.app" ELSE c["endpointDomain"].v

\* The host of the URL: the configured domain, the default when it is absent
\* or empty.
EndpointHost(c) ==
    LET endpointDomain == Value(c, "endpointDomain", DefaultDomain)
    IN  IF endpointDomain = "" THEN DefaultDomain ELSE endpointDomain

RequiredMissingIdOnly(shockerID, openShockToken, customName) ==
    shockerID = ""

\* The test of the required fields.
RequiredMissing(shockerID, openShockToken, customName) ==
    shockerID = "" \/ openShockToken = "" \/ customName = ""

\* sendPostRequest up to the draws: the steps, how it ended ("Ready": the
\* request is to be built), and the values extracted from the document.
Extract(c, h) ==
    LET rc == readConfig(c, h)
        Stop(steps, how) ==
            [steps |-> steps, outcome |-> how,
             minDuration |-> 0, maxDuration |-> 0, minIntensity |-> 0, maxIntensity |-> 0,
             shockerID |-> "", openShockToken |-> "", customName |-> "", domain |-> ""]
    IN  IF rc.thrown THEN Stop(rc.steps, "Exception")
        ELSE IF rc.ret = "null" THEN Stop(rc.steps, rc.error)
        ELSE IF JsonEmpty(c) THEN Stop(rc.steps, "EmptyConfig")
        ELSE IF \/ ValueThrows(c, "shockerID", "string")
                \/ ValueThrows(c, "OpenShockToken", "string")
                \/ ValueThrows(c, "customName", "string")
                \/ ValueThrows(c, "endpointDomain", "string")
             THEN Stop(rc.steps \o <<"throw">>, "Exception")
        ELSE IF RequiredMissing(Value(c, "shockerID", ""), Value(c, "OpenShockToken", ""),
                                Value(c, "customName", ""))
             THEN Stop(rc.steps \o <<"popup:MissingRequiredField">>, "MissingRequiredField")
        ELSE [steps |-> rc.steps, outcome |-> "Ready",
              minDuration |-> Value(c, "minDuration", MinDurationDefault),
              maxDuration |-> Value(c, "maxDuration", MaxDurationDefault),
              minIntensity |-> Value(c, "minIntensity", MinIntensityDefault),
              maxIntensity |-> Value(c, "maxIntensity", MaxIntensityDefault),
              shockerID |-> Value(c, "shockerID", ""),
              openShockToken |-> Value(c, "OpenShockToken", ""),
              customName |-> Value(c, "customName", ""),
              domain |-> EndpointHost(c)]

generateRandomValueOpen(min, max) ==
    {min, max + 1}

\* generateRandomValue: any value of min..max; those within DrawWidth of an
\* end are kept.
generateRandomValue(min, max) ==
    LET lowEnd == IF min + DrawWidth - 1 < max THEN min + DrawWidth - 1 ELSE max
        highEnd == IF max - DrawWidth + 1 > min THEN max - DrawWidth + 1 ELSE min
    IN  (min..lowEnd) \cup (highEnd..max)

\* The request of one trigger: URL, headers, body, and the seconds shown in
\* the "Duration: ..." message.
BuildRequest(x, randomIntensity, randomDurationMs) ==
    [url |-> "https://" \o x.domain \o "/2/shockers/control",
     token |-> x.openShockToken, id |-> x.shockerID, customName |-> x.customName,
     intensity |-> randomIntensity, duration |-> randomDurationMs,
     shownSeconds |-> randomDurationMs \div 1000]

\* ------------------------------------------------------------ playDeathEffect
\* pauseGame: nothing without a play layer; the actions are paused when the
\* director has an action manager.
pauseGame(h) ==
    IF ~h.playLayer THEN << >>
    ELSE IF h.actionManager THEN <<"pauseGame", "pauseActions">>
    ELSE <<"pauseGame">>

HookOrderSendFirst(paused, sent) ==
    <<"original">> \o <<"popup:Shocking">> \o sent \o paused

\* The order of the hook: the original effect, pauseGame, the "Shocking..."
\* message, sendPostRequest.
HookOrder(paused, sent) ==
    <<"original">> \o paused \o <<"popup:Shocking">> \o sent

\* One death with its request built and posted.  The listener is bound and
\* its filter set to the new task: the task it held is no longer listened to.
Dispatch(c, h, x, i, d) ==
    /\ nTriggers' = nTriggers + 1
    /\ cfg' = c
    /\ host' = h
    /\ trace' = HookOrder(pauseGame(h),
                           x.steps \o <<"draw", "draw", "bind", "io:post", "popup:Sent">>)
    /\ outcome' = "Dispatched"
    /\ req' = BuildRequest(x, i, d)
    /\ listener' = nTriggers + 1
    /\ trig' = [t \in DOMAIN trig |->
                  IF t = nTriggers + 1
                    THEN [NoTrigger EXCEPT !.task = "pending", !.posts = 1]
                  ELSE IF t = listener /\ trig[t].task = "pending"
                    THEN [trig[t] EXCEPT !.task = "orphaned"]
                  ELSE trig[t]]
    /\ UNCHANGED progress

\* One death that ends before a request is built.
Stopped(c, h, x) ==
    /\ nTriggers' = nTriggers + 1
    /\ cfg' = c
    /\ host' = h
    /\ trace' = HookOrder(pauseGame(h), x.steps)
    /\ outcome' = x.outcome
    /\ req' = NoRequest
    /\ trig' = [trig EXCEPT ![nTriggers + 1] =
                  [NoTrigger EXCEPT !.errors =
                     IF x.outcome \in {"MissingFile", "MalformedJson", "InvalidRange",
                                       "InvalidIntensity", "MissingRequiredField"}
                       THEN 1 ELSE 0]]
    /\ UNCHANGED <<listener, progress>>

\* playDeathEffect with settings.json holding c and the host in state h.
playDeathEffect(c, h) ==
    LET x == Extract(c, h)
    IN  IF x.outcome = "Ready"
          THEN \E i \in generateRandomValue(x.minIntensity, x.maxIntensity),
                  d \in generateRandomValue(x.minDuration, x.maxDuration) :
                     Dispatch(c, h, x, i, d)
          ELSE Stopped(c, h, x)

\* ------------------------------------------------------------ the listener
\* The task the listener holds delivers its response: the body is shown.
OnResponse ==
    /\ listener # 0
    /\ trig[listener].task = "pending"
    /\ trig' = [trig EXCEPT ![listener].task = "finished",
                            ![listener].successes = @ + 1]
    /\ UNCHANGED <<nTriggers, cfg, host, trace, outcome, req, listener, progress>>

\* The task the listener holds reports progress: a log line, no message.
OnProgress ==
    /\ listener # 0
    /\ trig[listener].task = "pending"
    /\ progress < MaxProgress
    /\ progress' = progress + 1
    /\ UNCHANGED <<nTriggers, cfg, host, trace, outcome, req, listener, trig>>

\* The task the listener holds is cancelled: the cancellation is shown.
OnCancelled ==
    /\ listener # 0
    /\ trig[listener].task = "pending"
    /\ trig' = [trig EXCEPT ![listener].task = "cancelled",
                            ![listener].cancels = @ + 1]
    /\ UNCHANGED <<nTriggers, cfg, host, trace, outcome, req, listener, progress>>

\* ------------------------------------------------------------ specifications
Init ==
    /\ nTriggers = 0
    /\ cfg = MissingFile
    /\ host = InLevel
    /\ trace = << >>
    /\ outcome = "Idle"
    /\ req = NoRequest
    /\ listener = 0
    /\ trig = [t \in 1..MaxTriggers |-> NoTrigger]
    /\ progress = 0

\* Deaths in any state of the host, over the sample documents.
Trigger ==
    /\ nTriggers < MaxTriggers
    /\ \E c \in SampleConfigs, h \in Hosts : playDeathEffect(c, h)

Next == Trigger \/ OnResponse \/ OnProgress \/ OnCancelled

Spec == Init /\ [][Next]_vars

\* One death inside a level, over every document.
Load ==
    /\ nTriggers = 0
    /\ \E c \in Configs : playDeathEffect(c, InLevel)

NextLoad == Load \/ OnResponse \/ OnProgress \/ OnCancelled

SpecLoad == Init /\ [][NextLoad]_vars

\* Deaths inside a level, over the documents with the required strings.
Draw ==
    /\ nTriggers < MaxTriggers
    /\ \E c \in RangeConfigs : playDeathEffect(c, InLevel)

NextDraw == Draw \/ OnResponse \/ OnProgress \/ OnCancelled

SpecDraw == Init /\ [][NextDraw]_vars

\* ------------------------------------------------------------ properties
\* What the properties say of the last trigger's document, written from the
\* documentation of settings.json and not from the code above.
Triggered == nTriggers > 0
IsObject == cfg.file = "parsed" /\ cfg.root = "object"
IntOrAbsent(key) == cfg[key].t \in {"absent", "int"}
StringOrAbsent(key) == cfg[key].t \in {"absent", "string"}
Effective(key, default) == IF cfg[key].t = "absent" THEN default ELSE cfg[key].v
Steps == { trace[i] : i \in DOMAIN trace }
IOSteps == {"io:openReadme", "io:writeReadme", "io:openSettings", "io:parseSettings", "io:post"}
Last == trig[nTriggers]

DurationOutOfRange ==
    /\ IsObject /\ IntOrAbsent("minDuration") /\ IntOrAbsent("maxDuration")
    /\ \/ Effective("minDuration", 300) < 300
       \/ Effective("maxDuration", 30000) > 30000
       \/ Effective("minDuration", 300) > Effective("maxDuration", 30000)

DurationInRange ==
    /\ IsObject /\ IntOrAbsent("minDuration") /\ IntOrAbsent("maxDuration")
    /\ 300 <= Effective("minDuration", 300)
    /\ Effective("minDuration", 300) <= Effective("maxDuration", 30000)
    /\ Effective("maxDuration", 30000) <= 30000

IntensityOutOfRange ==
    /\ IsObject /\ IntOrAbsent("minIntensity") /\ IntOrAbsent("maxIntensity")
    /\ \/ Effective("minIntensity", 1) < 1
       \/ Effective("maxIntensity", 100) > 100
       \/ Effective("minIntensity", 1) > Effective("maxIntensity", 100)

IntensityInRange ==
    /\ IsObject /\ IntOrAbsent("minIntensity") /\ IntOrAbsent("maxIntensity")
    /\ 1 <= Effective("minIntensity", 1)
    /\ Effective("minIntensity", 1) <= Effective("maxIntensity", 100)
    /\ Effective("maxIntensity", 100) <= 100

MissingOrEmpty(key) == cfg[key] \in {Absent, JStr("")}
Present(key) == cfg[key].t = "string" /\ cfg[key].v # ""

\* A document the mod is to act on: the ranges hold, the three required
\* strings are there, the domain is a string or absent.
Acceptable ==
    /\ DurationInRange /\ IntensityInRange
    /\ Present("shockerID") /\ Present("OpenShockToken") /\ Present("customName")
    /\ StringOrAbsent("endpointDomain")

\* C1: a document whose effective duration values are out of range ends the
\* trigger in the duration-range error, with no draw, no request and no POST.
C1_BadDurationIsInvalidRange ==
    (Triggered /\ DurationOutOfRange) =>
        /\ outcome = "InvalidRange"
        /\ "draw" \notin Steps /\ "io:post" \notin Steps
        /\ req = NoRequest /\ Last.posts = 0

\* C2 as written: a document whose effective intensity values are out of
\* range ends loading in the intensity error.
C2_BadIntensityIsInvalidIntensity ==
    (Triggered /\ IntensityOutOfRange) => outcome = "InvalidIntensity"

\* C2 as amended: a document whose effective duration values are in range and
\* whose effective intensity values are out of range ends loading in the
\* intensity error.
C2_BadIntensityAfterGoodDuration ==
    (Triggered /\ DurationInRange /\ IntensityOutOfRange) =>
        /\ outcome = "InvalidIntensity"
        /\ "popup:InvalidIntensity" \in Steps
        /\ Last.posts = 0

C2_Witness ==
    /\ Triggered /\ DurationInRange
    /\ cfg.minIntensity = JInt(2) /\ cfg.maxIntensity = JInt(1)
    /\ outcome = "InvalidIntensity"

\* C3: every request dispatched carries an intensity and a duration within
\* the configured bounds, both ends included, hence within 1..100 and
\* 300..30000; equal bounds give that one value.
C3_DrawsWithinBounds ==
    outcome = "Dispatched" =>
        /\ Effective("minIntensity", 1) <= req.intensity
        /\ req.intensity <= Effective("maxIntensity", 100)
        /\ Effective("minDuration", 300) <= req.duration
        /\ req.duration <= Effective("maxDuration", 30000)
        /\ req.intensity \in 1..100
        /\ req.duration \in 300..30000

C3_Witness ==
    /\ nTriggers = 2 /\ outcome = "Dispatched" /\ trig[1].posts = 1
    /\ Effective("minDuration", 300) = Effective("maxDuration", 30000)
    /\ req.duration = 300
    /\ Effective("minIntensity", 1) < Effective("maxIntensity", 100)
    /\ req.intensity = Effective("maxIntensity", 100)

\* C4: a document with valid (or absent) numeric fields in which one of
\* shockerID, OpenShockToken, customName is missing or empty ends the trigger
\* in the missing-required-fields error, its message shown, no request sent;
\* the document {} is one of them.  Stated for the documents whose string
\* keys hold strings, where no exception can interfere.
C4_MissingRequiredIsReported ==
    (/\ Triggered /\ DurationInRange /\ IntensityInRange
     /\ StringOrAbsent("shockerID") /\ StringOrAbsent("OpenShockToken")
     /\ StringOrAbsent("customName") /\ StringOrAbsent("endpointDomain")
     /\ \/ MissingOrEmpty("shockerID")
        \/ MissingOrEmpty("OpenShockToken")
        \/ MissingOrEmpty("customName"))
    => /\ outcome = "MissingRequiredField"
       /\ "popup:MissingRequiredField" \in Steps
       /\ Last.errors = 1 /\ Last.posts = 0

\* C5: every trigger gets one terminal message and no more: an error message
\* when nothing was dispatched, one success or one cancellation when its
\* request ended.
C5_OneTerminalMessage ==
    \A t \in 1..nTriggers :
        /\ trig[t].errors + trig[t].successes + trig[t].cancels <= 1
        /\ trig[t].posts = 0 => trig[t].errors = 1
        /\ trig[t].task = "finished" => trig[t].successes = 1
        /\ trig[t].task = "cancelled" => trig[t].cancels = 1

\* C6: a trigger dispatches one POST when its document is acceptable and none
\* otherwise, and nothing delivered to the listener adds a POST.
C6_AtMostOnePost ==
    /\ \A t \in 1..MaxTriggers :
          /\ trig[t].posts <= 1
          /\ t > nTriggers => trig[t].posts = 0
    /\ Triggered => (Last.posts = 1 <=> Acceptable)
    /\ Triggered => (Last.posts = 1 <=> "io:post" \in Steps)

C6_Witness ==
    /\ nTriggers = 2
    /\ trig[1].posts = 1 /\ trig[1].task = "finished"
    /\ Acceptable /\ trig[2].posts = 1 /\ trig[2].task = "cancelled"

PauseCount == Cardinality({ i \in DOMAIN trace : trace[i] = "pauseGame" })
PauseBeforeIO ==
    \A i, j \in DOMAIN trace :
        (trace[i] = "pauseGame" /\ trace[j] \in IOSteps) => i < j

\* C7 as written: on every trigger the pause is invoked once, before every
\* I/O step, and the game is never resumed.
C7_PausedOnceBeforeIO ==
    Triggered =>
        /\ PauseCount = 1
        /\ PauseBeforeIO
        /\ "resumeGame" \notin Steps

\* C7 as amended: on every trigger the pause is invoked once when there is a
\* play layer and not at all when there is none; when invoked it precedes
\* every I/O step; the game is never resumed.
C7_PausedOnceWhenInLevel ==
    Triggered =>
        /\ PauseCount = (IF host.playLayer THEN 1 ELSE 0)
        /\ PauseBeforeIO
        /\ "resumeGame" \notin Steps

C7_Witness ==
    /\ Triggered /\ host.playLayer /\ PauseCount = 1
    /\ "io:writeReadme" \in Steps /\ "io:post" \in Steps

\* C8: no exception leaves the trigger handler, whatever settings.json holds.
C8_NoExceptionEscapes ==
    Triggered => (outcome # "Exception" /\ "throw" \notin Steps)

\* C9: the URL of a dispatched request has the host api.openshock.app when
\* endpointDomain is absent or empty and the configured host otherwise.
C9_UrlHost ==
    outcome = "Dispatched" =>
        /\ MissingOrEmpty("endpointDomain") =>
              req.url = "https://api.openshock.app/2/shockers/control"
        /\ cfg.endpointDomain = JStr("foo.bar") =>
              req.url = "https://foo.bar/2/shockers/control"
        /\ cfg.endpointDomain \in {Absent, JStr(""), JStr("foo.bar")}

C9_Witness ==
    /\ outcome = "Dispatched" /\ cfg.endpointDomain = JStr("")
    /\ req.url = "https://api.openshock.app/2/shockers/control"

\* C10: a request still in flight when a later trigger dispatches its own
\* stays listened to, and the outcome of each request reaches the UI.
C10_OverlappingRequestsKept ==
    \A t \in 1..nTriggers :
        trig[t].posts = 1 => trig[t].task \in {"pending", "finished", "cancelled"}

====
